---- MODULE Spec2Model ----
(***************************************************************************)
(* A model of tm-sim.c, a simulator of nondeterministic Turing machines.   *)
(*                                                                         *)
(* The state is the state of the C program: the machine being loaded from  *)
(* stdin (the temporary state list, the transition nodes, the states       *)
(* array), the heap of branches, page descriptors and page memory buffers, *)
(* the runqueue, and the position of main.  Heap objects are identified by *)
(* their index in the heap they were allocated from; index 0 is NULL.      *)
(***************************************************************************)
EXTENDS Integers, Sequences, FiniteSets, TLC

(***************************************************************************)
(* Bounds of the model.                                                    *)
(***************************************************************************)
\* transition lines in the "tr" section
MaxTr == 2
\* lines in the "acc" section
MaxAcc == 1
\* largest value read for max_steps
MaxStepsBound == 5
\* longest input line
MaxLen == 2
\* input lines per execution
MaxRuns == 2
\* transition lines in the "tr" section, when only the loading is explored
MaxLoad == 4
\* rows of a state, when only the lookup is explored
MaxRows == 7
\* The source sets PAGE_SIZE to 512 (tm-sim.c:13).  The code uses it only as
\* the length of a memory buffer and in comparisons with head_pos, so the
\* model scales it down to make both page edges reachable.
PAGE_SIZE == 2

(***************************************************************************)
(* Constants of the program.                                               *)
(***************************************************************************)
NULL == 0
UCHAR_MAX == 255
MAX_SIZE_LINEAR_SEARCH == 4
INITIAL_STATE == 0
BLANK == 95
SYM_ACCEPT == "1"
SYM_REFUSE == "0"
SYM_UNDET == "U"

\* the byte values of 'a' and 'b'
ChA == 97
ChB == 98

\* conversion of a byte read from stdin to the (signed) char that stores it
ToChar(i) == IF i > 127 THEN i - 256 ELSE i
\* the cast (unsigned char) of a char
ToUChar(c) == c % (UCHAR_MAX + 1)

(***************************************************************************)
(* The input the model draws from.                                         *)
(***************************************************************************)
\* a transition line "q_in input output move q_out"
TrLine(q_in, input, output, move, q_out) ==
  [q_in |-> q_in, input |-> input, output |-> output, move |-> move, q_out |-> q_out]

\* the transition lines of the "tr" section
TrLines ==
  { TrLine(0, ChA, ChB, "R", 0),
    TrLine(0, ChA, ChA, "L", 1),
    TrLine(0, BLANK, BLANK, "S", 1),
    TrLine(0, BLANK, BLANK, "R", 1),
    TrLine(0, BLANK, ChA, "S", 2),
    TrLine(1, BLANK, ChA, "R", 0) }

\* the byte value of a char above 127
ChHigh == 200

\* the transition lines of the "tr" section, when only the loading is
\* explored: three state numbers, with a gap, and a char on each side of 127
LoadLines ==
  { TrLine(q, c, ChB, "R", 0) : q \in {0, 1, 3}, c \in {ChA, ChHigh} }

\* the chars of the rows of state 0, when only the lookup is explored: six
\* bytes below 128 and three above
LookupSyms == {48, 49, BLANK, ChA, ChB, 99, 128, ChHigh, UCHAR_MAX}

\* the bytes that a branch can read from its tape
Keys == 0..UCHAR_MAX

\* the state numbers of the "acc" section
AccLines == 0..3

\* the bytes of an input line
InputSyms == {BLANK, ChA}

\* the input lines
RECURSIVE Words(_)
Words(n) ==
  IF n = 0 THEN {<<>>}
  ELSE LET W == Words(n - 1)
       IN W \cup {Append(w, c) : w \in {x \in W : Len(x) = n - 1}, c \in InputSyms}
InputLines == Words(MaxLen)

VARIABLES
  pc,            \* position of main: "tr", "acc", "run", "compute", "drain", "exit", "fault"
  max_state,     \* tm.max_state
  max_steps,     \* tm.max_steps
  states,        \* tm.states: <<>> while NULL, then [0..max_state -> state_t]
  trs,           \* heap of tr_output_t nodes
  state_list,    \* load_transitions: the temporary list of state_temp_t
  c_state,       \* load_transitions: the current element of state_list (NULL or an index)
  nAcc,          \* number of lines read by load_acc
  rq,            \* tm.rq: the runqueue, top first
  branches,      \* heap of branch_t
  pages,         \* heap of page_t
  mems,          \* heap of page memory buffers
  has_preempted, \* tm_compute_rq: has_preempted
  res,           \* tm_run: the verdict c
  output,        \* stdout: the verdict lines printed
  nRuns,         \* number of input lines consumed
  line,          \* history: the input line of the current run
  ghost,         \* history: for each branch, the tape and head its path defines
  hist           \* history: the transition lines read, and events of the current run

machine == <<max_state, max_steps, states, trs>>
loader == <<state_list, c_state, nAcc>>
heap == <<branches, pages, mems>>
engine == <<rq, has_preempted, res>>
io == <<output, nRuns, line>>
vars == <<pc, machine, loader, heap, engine, io, ghost, hist>>

(***************************************************************************)
(* Loading of the machine.                                                 *)
(***************************************************************************)
state_temp_create(q) ==
  [number |-> q, tr_inputs_count |-> 0, tr_inputs |-> <<>>]

InsertAt(s, i, e) == SubSeq(s, 1, i - 1) \o <<e>> \o SubSeq(s, i, Len(s))

\* while (c_state->next != NULL && c_state->next->number < q)
RECURSIVE ScanRight(_, _, _)
ScanRight(list, c, q) ==
  IF c < Len(list) /\ list[c + 1].number < q THEN ScanRight(list, c + 1, q) ELSE c

\* while (c_state->prev != NULL && c_state->prev->number > q)
RECURSIVE ScanLeft(_, _, _)
ScanLeft(list, c, q) ==
  IF c > 1 /\ list[c - 1].number > q THEN ScanLeft(list, c - 1, q) ELSE c

\* a search that looks at the current element only
state_temp_get_noscan(list, c, q) ==
  IF c = NULL THEN [list |-> <<state_temp_create(q)>>, c |-> 1]
  ELSE IF list[c].number = q THEN [list |-> list, c |-> c]
  ELSE [list |-> InsertAt(list, c + 1, state_temp_create(q)), c |-> c + 1]

\* finds or adds state q in the temporary list, starting from element c
state_temp_get(list, c, q) ==
  IF c = NULL THEN
    [list |-> <<state_temp_create(q)>>, c |-> 1]
  ELSE IF list[c].number < q THEN
    LET c1 == ScanRight(list, c, q)
    IN IF c1 < Len(list) /\ list[c1 + 1].number = q
       THEN [list |-> list, c |-> c1 + 1]
       ELSE [list |-> InsertAt(list, c1 + 1, state_temp_create(q)), c |-> c1 + 1]
  ELSE IF list[c].number > q THEN
    LET c1 == ScanLeft(list, c, q)
    IN IF c1 > 1 /\ list[c1 - 1].number = q
       THEN [list |-> list, c |-> c1 - 1]
       ELSE [list |-> InsertAt(list, c1, state_temp_create(q)), c |-> c1]
  ELSE [list |-> list, c |-> c]

\* the list head stored for a char, NULL when none was stored
TempHead(st, input) ==
  IF ToUChar(input) \in DOMAIN st.tr_inputs THEN st.tr_inputs[ToUChar(input)] ELSE NULL

\* an insertion that keeps the head of a list that is not empty
state_temp_add_transition_keephead(st, tr, input) ==
  [st EXCEPT
     !.tr_inputs_count = IF TempHead(st, input) = NULL THEN @ + 1 ELSE @,
     !.tr_inputs = [i \in DOMAIN st.tr_inputs \cup {ToUChar(input)} |->
                      IF i = ToUChar(input) /\ TempHead(st, input) = NULL
                      THEN tr ELSE st.tr_inputs[i]]]

\* the new transition node becomes the head of the list of its input char
state_temp_add_transition(st, tr, input) ==
  [st EXCEPT
     !.tr_inputs_count = IF TempHead(st, input) = NULL THEN @ + 1 ELSE @,
     !.tr_inputs = [i \in DOMAIN st.tr_inputs \cup {ToUChar(input)} |->
                      IF i = ToUChar(input) THEN tr ELSE st.tr_inputs[i]]]

\* the node allocated by state_temp_add_transition
NewTr(st, l) ==
  [state |-> l.q_out, output |-> ToChar(l.output), move |-> l.move,
   next |-> TempHead(st, ToChar(l.input))]

Max(a, b) == IF a > b THEN a ELSE b

\* an update of max_state that looks at the source state only
max_state_sources(m, l) == Max(m, l.q_in)

\* load_transitions: max_state after line l
max_state_after(m, l) == Max(Max(m, l.q_in), l.q_out)

\* history: no line of the "acc" section has been read
NoLine == 0 - 1

\* load_transitions: the transition of line l is added to the state g.c of
\* the list g.list
Appended(g, l) ==
  /\ trs' = Append(trs, NewTr(g.list[g.c], l))
  /\ state_list' = [g.list EXCEPT
                      ![g.c] = state_temp_add_transition(@, Len(trs) + 1, ToChar(l.input))]
  /\ c_state' = g.c

\* one transition line read by load_transitions, the n-th at most
ReadLine(l, n) ==
  /\ pc = "tr"
  /\ Len(trs) < n
  /\ Appended(state_temp_get(state_list, c_state, l.q_in), l)
  /\ max_state' = max_state_after(max_state, l)
  /\ hist' = [hist EXCEPT !.lines = Append(@, l)]
  /\ UNCHANGED <<pc, max_steps, states, nAcc, heap, engine, io, ghost>>

AddTransition(l) == ReadLine(l, MaxTr)

\* for (i = 0; i <= UCHAR_MAX; i++): the rows of the chars lo..hi of a state,
\* in the order of i (the range is halved to keep the evaluation shallow)
RECURSIVE copy_rows(_, _, _)
copy_rows(t, lo, hi) ==
  IF lo = hi
  THEN IF lo \in DOMAIN t THEN <<[input |-> ToChar(lo), transitions |-> t[lo]]>> ELSE <<>>
  ELSE LET mid == (lo + hi) \div 2
       IN copy_rows(t, lo, mid) \o copy_rows(t, mid + 1, hi)

\* the array tr_inputs, indexed from 0
RowArray(t) == LET r == copy_rows(t, 0, UCHAR_MAX) IN [k \in 0..(Len(r) - 1) |-> r[k + 1]]

\* the states array after the transfer of the temporary list
RECURSIVE transfer(_, _, _)
transfer(arr, list, k) ==
  IF k > Len(list) THEN arr
  ELSE transfer([arr EXCEPT ![list[k].number] =
                   [@ EXCEPT !.tr_inputs_count = list[k].tr_inputs_count,
                             !.tr_inputs = RowArray(list[k].tr_inputs)]],
                list, k + 1)

\* the end of the "tr" section: load_transitions builds the states array
LoadTransitionsEnd ==
  /\ pc = "tr"
  /\ states' = transfer([i \in 0..max_state |->
                           [is_acc |-> FALSE, is_reachable |-> (i = INITIAL_STATE),
                            tr_inputs_count |-> 0, tr_inputs |-> <<>>]],
                        state_list, 1)
  /\ state_list' = <<>>
  /\ c_state' = NULL
  /\ pc' = "acc"
  /\ UNCHANGED <<max_state, max_steps, trs, nAcc, heap, engine, io, ghost, hist>>

\* a test that marks the last state for a number above max_state
load_acc_clamped(arr, q) ==
  [arr EXCEPT ![IF q <= max_state THEN q ELSE max_state].is_acc = TRUE]

\* load_acc: the flag of state q is set if q <= max_state
load_acc(arr, q) ==
  IF q <= max_state THEN [arr EXCEPT ![q].is_acc = TRUE] ELSE arr

\* one line read by load_acc
LoadAcc(q) ==
  /\ pc = "acc"
  /\ nAcc < MaxAcc
  /\ nAcc' = nAcc + 1
  /\ states' = load_acc(states, q)
  /\ hist' = [hist EXCEPT !.acc = q]
  /\ UNCHANGED <<pc, max_state, max_steps, trs, state_list, c_state, heap, engine, io, ghost>>

\* the end of the "acc" section and the "max" section
LoadMax(n) ==
  /\ pc = "acc"
  /\ max_steps' = n
  /\ nAcc' = 0
  /\ pc' = "run"
  /\ hist' = [hist EXCEPT !.acc = NoLine]
  /\ UNCHANGED <<max_state, states, trs, state_list, c_state, heap, engine, io, ghost>>

(***************************************************************************)
(* The heap.  The operations of the engine are functions of a heap record  *)
(* h: br, pg and mm are the heaps of branches, page descriptors and memory *)
(* buffers, q is the runqueue, and fault says that the operation has       *)
(* dereferenced a NULL pointer or has freed a freed object, which ends the *)
(* process without a verdict.                                              *)
(***************************************************************************)
Heap == [br |-> branches, pg |-> pages, mm |-> mems, q |-> rq, fault |-> FALSE]

\* the sequence of two statements: F applied to the heap that h leaves, which
\* is evaluated once
Then(h, F(_)) == CHOOSE g \in {F(v) : v \in {h}} : TRUE

\* malloc of a page memory, filled with BLANK
mem_create(h) ==
  [h EXCEPT !.mm = Append(@, [live |-> TRUE, data |-> [i \in 0..(PAGE_SIZE - 1) |-> BLANK]])]

\* allocates a page descriptor, and its memory when mem is NULL; the new
\* descriptor is the last of h.pg
page_create(h, prev, next, private, mem) ==
  IF mem = NULL
  THEN [mem_create(h) EXCEPT
          !.pg = Append(@, [live |-> TRUE, private |-> private,
                            prev |-> prev, next |-> next, mem |-> Len(h.mm) + 1])]
  ELSE [h EXCEPT
          !.pg = Append(@, [live |-> TRUE, private |-> private,
                            prev |-> prev, next |-> next, mem |-> mem])]

\* a page that is marked private without a memory of its own
page_make_private_inplace(h, p) == [h EXCEPT !.pg[p].private = TRUE]

\* copies the shared memory of a page to a new private memory
page_make_private(h, p) ==
  [h EXCEPT !.mm = Append(@, [live |-> TRUE, data |-> h.mm[h.pg[p].mem].data]),
            !.pg[p].mem = Len(h.mm) + 1,
            !.pg[p].private = TRUE]

\* a clone that starts from the first cell of its page
branch_clone_rewound(h, parent, tr) ==
  [h EXCEPT !.br = Append(@,
     [live |-> TRUE, nd_parent |-> parent, state |-> h.br[parent].state, tr |-> tr,
      head_page |-> NULL, head_pos |-> 0,
      steps |-> h.br[parent].steps, first_page |-> NULL])]

\* creates a branch from its parent, without memory
branch_clone(h, parent, tr) ==
  [h EXCEPT !.br = Append(@,
     [live |-> TRUE, nd_parent |-> parent, state |-> h.br[parent].state, tr |-> tr,
      head_page |-> NULL, head_pos |-> h.br[parent].head_pos,
      steps |-> h.br[parent].steps, first_page |-> NULL])]

\* a link that sets the head of b to the page descriptor of the parent
memcpy_link_parenthead(h, b, parent, p_parent, p_child, new) ==
  [h EXCEPT !.pg[IF p_child # NULL THEN p_child ELSE new].next =
               IF p_child # NULL THEN new ELSE @,
            !.br[b].first_page = IF p_child # NULL THEN @ ELSE new,
            !.br[b].head_page = IF p_parent = h.br[parent].head_page THEN p_parent ELSE @]

\* branch_memcpy: the descriptor new, just created, is linked to the previous
\* one, or is the first page of b; it is the head page of b if it copies the
\* head page of the parent
memcpy_link(h, b, parent, p_parent, p_child, new) ==
  [h EXCEPT !.pg[IF p_child # NULL THEN p_child ELSE new].next =
               IF p_child # NULL THEN new ELSE @,
            !.br[b].first_page = IF p_child # NULL THEN @ ELSE new,
            !.br[b].head_page = IF p_parent = h.br[parent].head_page THEN new ELSE @]

\* the loop of branch_memcpy: one descriptor per page of the parent, sharing
\* the memory of the parent's page
RECURSIVE memcpy_loop(_, _, _, _, _)
memcpy_loop(h, b, parent, p_parent, p_child) ==
  IF p_parent = NULL THEN h
  ELSE Then(memcpy_link(page_create(h, p_child, NULL, FALSE, h.pg[p_parent].mem),
                        b, parent, p_parent, p_child, Len(h.pg) + 1),
            LAMBDA g : memcpy_loop(g, b, parent, h.pg[p_parent].next, Len(h.pg) + 1))

branch_memcpy(h, b, parent) ==
  IF parent = NULL THEN h
  ELSE memcpy_loop(h, b, parent, h.br[parent].first_page, NULL)

\* free(page->mem), free(page), free(branch): freeing an object that is not
\* live is a fault
free_mem(h, m) == [h EXCEPT !.mm[m].live = FALSE, !.fault = @ \/ ~h.mm[m].live]
free_page(h, p) == [h EXCEPT !.pg[p].live = FALSE, !.fault = @ \/ ~h.pg[p].live]
\* a destruction that does not free the branch
free_branch_kept(h, b) == h

free_branch(h, b) == [h EXCEPT !.br[b].live = FALSE, !.fault = @ \/ ~h.br[b].live]

\* the loop of branch_destroy over the page descriptors
RECURSIVE destroy_loop(_, _)
destroy_loop(h, p) ==
  IF p = NULL THEN h
  ELSE Then(free_page(IF h.pg[p].private THEN free_mem(h, h.pg[p].mem) ELSE h, p),
            LAMBDA g : destroy_loop(g, h.pg[p].next))

branch_destroy(h, b) ==
  Then(destroy_loop(h, h.br[b].first_page), LAMBDA g : free_branch(g, b))

\* a push at the bottom of the runqueue
rq_push_bottom(h, b) == [h EXCEPT !.q = @ \o <<b>>]

\* adds a branch on top of the runqueue
rq_push(h, b) == [h EXCEPT !.q = <<b>> \o @]
rq_pop(h) == IF h.q # <<>> THEN [h EXCEPT !.q = Tail(@)] ELSE h

\* b->head_page->mem[b->head_pos]
under_head(h, b) == h.mm[h.pg[h.br[b].head_page].mem].data[h.br[b].head_pos]

\* the char under the head, BLANK when no page is allocated
head_read(h, b) ==
  IF h.br[b].head_page = NULL THEN BLANK ELSE under_head(h, b)

\* head_write: the first page is created when no page is allocated and the
\* char is not BLANK
first_page_fault(h, b, c) ==
  IF h.br[b].head_page = NULL /\ c # BLANK
  THEN [page_create(h, NULL, NULL, TRUE, NULL) EXCEPT
          !.br[b].first_page = Len(h.pg) + 1,
          !.br[b].head_page = Len(h.pg) + 1]
  ELSE h

\* head_write: b->head_page->mem[b->head_pos] = c
store(h, b, c) ==
  [h EXCEPT !.mm[h.pg[h.br[b].head_page].mem].data[h.br[b].head_pos] = c]

\* a write in place, also into shared memory
write_inplace(h, b, c) ==
  IF h.br[b].head_page = NULL THEN [h EXCEPT !.fault = TRUE]
  ELSE store(h, b, c)

\* a write that does not compare c with the char under the head
write_always(h, b, c) ==
  IF h.br[b].head_page = NULL THEN [h EXCEPT !.fault = TRUE]
  ELSE store(IF ~h.pg[h.br[b].head_page].private
             THEN page_make_private(h, h.br[b].head_page) ELSE h, b, c)

\* head_write after the page fault: b->head_page->mem is read also when
\* head_page is still NULL, which is the fault; a different char is written,
\* into a private copy if the page is shared
write_different(h, b, c) ==
  IF h.br[b].head_page = NULL THEN [h EXCEPT !.fault = TRUE]
  ELSE IF under_head(h, b) # c
  THEN store(IF ~h.pg[h.br[b].head_page].private
             THEN page_make_private(h, h.br[b].head_page) ELSE h, b, c)
  ELSE h

\* writes c under the head
head_write(h, b, c) ==
  Then(first_page_fault(h, b, c), LAMBDA g : write_different(g, b, c))

\* a left page fault that leaves first_page on the old leftmost page
left_page_fault_nofirst(h, b) ==
  IF h.pg[h.br[b].head_page].prev = NULL /\ h.br[b].head_pos = 0
  THEN [page_create(h, NULL, h.br[b].head_page, TRUE, NULL) EXCEPT
          !.pg[h.br[b].head_page].prev = Len(h.pg) + 1]
  ELSE h

\* head_move 'L': a page is created at the left edge of the chain
left_page_fault(h, b) ==
  IF h.pg[h.br[b].head_page].prev = NULL /\ h.br[b].head_pos = 0
  THEN [page_create(h, NULL, h.br[b].head_page, TRUE, NULL) EXCEPT
          !.pg[h.br[b].head_page].prev = Len(h.pg) + 1,
          !.br[b].first_page = Len(h.pg) + 1]
  ELSE h

\* head_move 'L': the head moves to the previous cell
left(h, b) ==
  IF h.br[b].head_pos = 0
  THEN [h EXCEPT !.br[b].head_page = h.pg[h.br[b].head_page].prev,
                 !.br[b].head_pos = PAGE_SIZE - 1]
  ELSE [h EXCEPT !.br[b].head_pos = @ - 1]

\* a right page fault that does not link the new page back to the head page
right_page_fault_noprev(h, b) ==
  IF h.pg[h.br[b].head_page].next = NULL /\ h.br[b].head_pos = PAGE_SIZE - 1
  THEN [page_create(h, NULL, NULL, TRUE, NULL) EXCEPT
          !.pg[h.br[b].head_page].next = Len(h.pg) + 1]
  ELSE h

\* head_move 'R': a page is created at the right edge of the chain
right_page_fault(h, b) ==
  IF h.pg[h.br[b].head_page].next = NULL /\ h.br[b].head_pos = PAGE_SIZE - 1
  THEN [page_create(h, h.br[b].head_page, NULL, TRUE, NULL) EXCEPT
          !.pg[h.br[b].head_page].next = Len(h.pg) + 1]
  ELSE h

\* head_move 'R': the head moves to the next cell
right(h, b) ==
  IF h.br[b].head_pos = PAGE_SIZE - 1
  THEN [h EXCEPT !.br[b].head_page = h.pg[h.br[b].head_page].next,
                 !.br[b].head_pos = 0]
  ELSE [h EXCEPT !.br[b].head_pos = @ + 1]

\* moves the head; nothing moves when no page is allocated
head_move(h, b, move) ==
  IF h.br[b].head_page = NULL THEN h
  ELSE IF move = "L" THEN Then(left_page_fault(h, b), LAMBDA g : left(g, b))
  ELSE IF move = "R" THEN Then(right_page_fault(h, b), LAMBDA g : right(g, b))
  ELSE h

(***************************************************************************)
(* The transition lookup.                                                  *)
(***************************************************************************)
\* the linear search of search_tr_out
RECURSIVE linear_search(_, _, _, _)
linear_search(v, p, r, key) ==
  IF p > r THEN NULL
  ELSE IF v[p].input = key THEN v[p].transitions
  ELSE linear_search(v, p + 1, r, key)

\* the list of output transitions of the row of key in v[p..r], or NULL
RECURSIVE search_tr_out(_, _, _, _)
search_tr_out(v, p, r, key) ==
  IF r < p \/ key < v[p].input \/ key > v[r].input THEN NULL
  ELSE IF (r - p) <= MAX_SIZE_LINEAR_SEARCH THEN linear_search(v, p, r, key)
  ELSE IF v[p + (r - p) \div 2].input = key THEN v[p + (r - p) \div 2].transitions
  ELSE IF v[p + (r - p) \div 2].input > key
  THEN search_tr_out(v, p, p + (r - p) \div 2 - 1, key)
  ELSE search_tr_out(v, p + (r - p) \div 2 + 1, r, key)

(***************************************************************************)
(* The engine.                                                             *)
(***************************************************************************)
\* tm_step: a branch that comes from a clone copies the memory of its parent
copy_parent(h, b) ==
  IF h.br[b].nd_parent # NULL
  THEN [branch_memcpy(h, b, h.br[b].nd_parent) EXCEPT !.br[b].nd_parent = NULL]
  ELSE h

\* tm_step: b->state = s
set_state(h, b, s) == [h EXCEPT !.br[b].state = s]

\* a transition that is not counted
complete_tr_nocount(h, b, move) ==
  IF h.fault THEN h
  ELSE head_move(h, b, move)

\* tm_step: after the write, the head moves and the step is counted
complete_tr(h, b, move) ==
  IF h.fault THEN h
  ELSE [head_move(h, b, move) EXCEPT !.br[b].steps = @ + 1]

\* the first part of tm_step: executes the pending transition of b
apply_tr(h, b) ==
  IF h.br[b].tr = NULL THEN h
  ELSE Then(Then(Then(copy_parent(h, b),
                      LAMBDA g : set_state(g, b, trs[h.br[b].tr].state)),
                 LAMBDA g : head_write(g, b, trs[h.br[b].tr].output)),
            LAMBDA g : complete_tr(g, b, trs[h.br[b].tr].move))

\* the loop of tm_step that clones b for the transitions after the first
RECURSIVE clone_loop(_, _, _)
clone_loop(h, b, tr_next) ==
  IF tr_next = NULL THEN h
  ELSE Then(rq_push(branch_clone(h, b, tr_next), Len(h.br) + 1),
            LAMBDA g : clone_loop(g, b, trs[tr_next].next))

\* the transition list found for the state and the char under the head of b
lookup(h, b) ==
  search_tr_out(states[h.br[b].state].tr_inputs, 0,
                states[h.br[b].state].tr_inputs_count - 1, head_read(h, b))

\* the second part of tm_step: b halts, or takes the first transition of the
\* list and is cloned for the others
next_tr(h, b, tr_next) ==
  IF h.fault THEN [h |-> h, halted |-> FALSE, s |-> h.br[b].state]
  ELSE IF tr_next = NULL THEN [h |-> h, halted |-> TRUE, s |-> h.br[b].state]
  ELSE [h |-> clone_loop([h EXCEPT !.br[b].tr = tr_next], b, trs[tr_next].next),
        halted |-> FALSE, s |-> h.br[b].state]

\* the state of b, after its pending transition, has no transition on the
\* char under the head of b
halts(h, b) == IF h.fault THEN NULL ELSE lookup(h, b)

\* tm_step: h is the heap after the step; halted says that the step returns
\* the halt state s instead of NULL
step_from(h, b) == next_tr(h, b, halts(h, b))
tm_step(h, b) == Then(apply_tr(h, b), LAMBDA g : step_from(g, b))

(***************************************************************************)
(* History: the tape that the path of a branch defines.  Cell p of the     *)
(* tape of the root holds the p-th char of the input line; a transition    *)
(* writes its output under the head and moves the head by one cell.        *)
(***************************************************************************)
Window == (0 - MaxStepsBound - 1)..(MaxLen + MaxStepsBound + 1)

GhostRoot(w) ==
  [tape |-> [p \in Window |-> IF p >= 0 /\ p < Len(w) THEN ToChar(w[p + 1]) ELSE BLANK],
   pos |-> 0]

GhostApply(g, tr) ==
  IF tr = NULL THEN g
  ELSE [tape |-> [g.tape EXCEPT ![g.pos] = trs[tr].output],
        pos |-> g.pos + (CASE trs[tr].move = "L" -> 0 - 1
                           [] trs[tr].move = "R" -> 1
                           [] OTHER -> 0)]

\* the history after a step of b that left the heap of branches br
GhostStep(br, b) ==
  [i \in 1..Len(br) |->
     IF i = b \/ i > Len(branches) THEN GhostApply(ghost[b], branches[b].tr) ELSE ghost[i]]

\* a step halts its branch in a state of the "acc" section
HaltsAccepting(r) == ~r.h.fault /\ r.halted /\ states[r.s].is_acc

\* the pending transition tr of b writes the char that is under the head, on
\* a shared page
same_on_shared(h, b, tr) ==
  /\ tr # NULL
  /\ h.br[b].head_page # NULL
  /\ ~h.pg[h.br[b].head_page].private
  /\ under_head(h, b) = trs[tr].output
WritesSame(b) == same_on_shared(copy_parent(Heap, b), b, branches[b].tr)

HistStep(b, r) ==
  [hist EXCEPT !.acc_halt = @ \/ HaltsAccepting(r),
               !.same_write = @ \/ WritesSame(b)]

(***************************************************************************)
(* The simulation of the input lines.                                      *)
(***************************************************************************)
SetHeap(h) ==
  /\ branches' = h.br
  /\ pages' = h.pg
  /\ mems' = h.mm
  /\ rq' = h.q

\* the objects of a heap whose objects have all been freed are allocated anew
Reuse(objs) == IF \A i \in 1..Len(objs) : ~objs[i].live THEN <<>> ELSE objs

\* tm_run, step 1: the root branch
root_create(h) ==
  [h EXCEPT !.br = Append(@,
     [live |-> TRUE, nd_parent |-> NULL, state |-> INITIAL_STATE, tr |-> NULL,
      head_page |-> NULL, head_pos |-> 0, steps |-> 0, first_page |-> NULL])]

\* tm_run, step 2: after the write of a char the head moves right
complete_load(h, root) == IF h.fault THEN h ELSE head_move(h, root, "R")

\* tm_run, step 2: the loop that writes the chars of the line from w[i] on
RECURSIVE load_string(_, _, _, _)
load_string(h, root, w, i) ==
  IF i > Len(w) \/ h.fault THEN h
  ELSE Then(Then(head_write(h, root, ToChar(w[i])), LAMBDA g : complete_load(g, root)),
            LAMBDA g : load_string(g, root, w, i + 1))

\* tm_run, steps 2 and 3: the head is reset and the root is pushed
rewind(h, root) ==
  IF h.fault THEN h
  ELSE rq_push([h EXCEPT !.br[root].head_page = h.br[root].first_page,
                         !.br[root].head_pos = 0], root)

\* tm_run up to the first iteration of the loop of tm_compute_rq
tm_run_start(h, w) ==
  Then(Then(root_create(h), LAMBDA g : load_string(g, Len(h.br) + 1, w, 1)),
       LAMBDA g : rewind(g, Len(h.br) + 1))

\* the state when tm_compute_rq starts on the heap h
Started(h, w) ==
  /\ SetHeap(h)
  /\ pc' = IF h.fault THEN "fault" ELSE "compute"
  /\ ghost' = [i \in 1..Len(h.br) |-> IF i = Len(h.br) THEN GhostRoot(w) ELSE ghost[i]]

\* main reads an input line and calls tm_run
TmRunStart(w) ==
  /\ pc = "run"
  /\ nRuns < MaxRuns
  /\ \E h \in {tm_run_start([Heap EXCEPT !.br = Reuse(branches), !.pg = Reuse(pages),
                                         !.mm = Reuse(mems)], w)} : Started(h, w)
  /\ has_preempted' = FALSE
  /\ res' = "-"
  /\ nRuns' = nRuns + 1
  /\ line' = w
  /\ hist' = [hist EXCEPT !.acc_halt = FALSE, !.preempted = FALSE, !.same_write = FALSE]
  /\ UNCHANGED <<machine, loader, output>>

\* the branch inspected by the loop of tm_compute_rq
Top == Head(rq)

\* a test that lets a branch at the bound execute one more transition
Preemption_late == branches[Top].steps > max_steps

\* the test of tm_compute_rq for preemption
Preemption == branches[Top].steps = max_steps

\* the state after rq_pop and branch_destroy left the heap h
Destroyed(h, next) ==
  /\ SetHeap(h)
  /\ pc' = IF h.fault THEN "fault" ELSE next

\* tm_compute_rq: the branch at the top has reached max_steps
Preempt ==
  /\ pc = "compute"
  /\ rq # <<>>
  /\ Preemption
  /\ \E h \in {branch_destroy(rq_pop(Heap), Top)} : Destroyed(h, "compute")
  /\ has_preempted' = TRUE
  /\ hist' = [hist EXCEPT !.preempted = TRUE]
  /\ UNCHANGED <<machine, loader, res, io, ghost>>

\* a test that forgets the "acc" section
IsAcceptance_any(s) == states[s].tr_inputs_count = 0

\* the test of tm_compute_rq on the halt state returned by tm_step
IsAcceptance(s) == states[s].tr_inputs_count = 0 /\ states[s].is_acc

\* the pending transition of the top branch dereferences NULL
Faults(r) ==
  /\ r.h.fault
  /\ SetHeap(r.h)
  /\ pc' = "fault"
  /\ UNCHANGED <<machine, loader, has_preempted, res, io, ghost, hist>>

\* tm_step returns an acceptance state: tm_compute_rq returns SYM_ACCEPT
Accepts(r) ==
  /\ ~r.h.fault
  /\ r.halted
  /\ IsAcceptance(r.s)
  /\ SetHeap(r.h)
  /\ ghost' = GhostStep(r.h.br, Top)
  /\ hist' = HistStep(Top, r)
  /\ res' = SYM_ACCEPT
  /\ pc' = "drain"
  /\ UNCHANGED <<machine, loader, has_preempted, io>>

\* tm_step returns another halt state: the branch is dequeued and destroyed
Halts(r) ==
  /\ ~r.h.fault
  /\ r.halted
  /\ ~IsAcceptance(r.s)
  /\ \E h \in {branch_destroy(rq_pop(r.h), Top)} : Destroyed(h, "compute")
  /\ ghost' = GhostStep(r.h.br, Top)
  /\ hist' = HistStep(Top, r)
  /\ UNCHANGED <<machine, loader, has_preempted, res, io>>

\* tm_step returns NULL: the branch stays in the runqueue, below its clones
Continues(r) ==
  /\ ~r.h.fault
  /\ ~r.halted
  /\ SetHeap(r.h)
  /\ ghost' = GhostStep(r.h.br, Top)
  /\ hist' = HistStep(Top, r)
  /\ UNCHANGED <<pc, machine, loader, has_preempted, res, io>>

\* tm_compute_rq: the step of the top branch faults
StepFault ==
  /\ pc = "compute"
  /\ rq # <<>>
  /\ ~Preemption
  /\ \E r \in {tm_step(Heap, Top)} : Faults(r)

\* tm_compute_rq: the top branch halts in an acceptance state
StepAccept ==
  /\ pc = "compute"
  /\ rq # <<>>
  /\ ~Preemption
  /\ \E r \in {tm_step(Heap, Top)} : Accepts(r)

\* tm_compute_rq: the top branch halts and is dequeued
StepHalt ==
  /\ pc = "compute"
  /\ rq # <<>>
  /\ ~Preemption
  /\ \E r \in {tm_step(Heap, Top)} : Halts(r)

\* tm_compute_rq: the top branch continues, below the clones of its step
StepContinue ==
  /\ pc = "compute"
  /\ rq # <<>>
  /\ ~Preemption
  /\ \E r \in {tm_step(Heap, Top)} : Continues(r)

\* a return statement that forgets the preemptions
verdict_norefuse(preempted) == SYM_REFUSE

\* the value that tm_compute_rq returns when the runqueue is empty
verdict(preempted) == IF preempted THEN SYM_UNDET ELSE SYM_REFUSE

\* tm_compute_rq: the runqueue is empty
ComputeReturn ==
  /\ pc = "compute"
  /\ rq = <<>>
  /\ res' = verdict(has_preempted)
  /\ pc' = "drain"
  /\ UNCHANGED <<machine, loader, heap, rq, has_preempted, io, ghost, hist>>

\* tm_run, step 4: one iteration of the loop that empties the runqueue
Drain ==
  /\ pc = "drain"
  /\ rq # <<>>
  /\ \E h \in {branch_destroy(rq_pop(Heap), Top)} : Destroyed(h, "drain")
  /\ UNCHANGED <<machine, loader, has_preempted, res, io, ghost, hist>>

\* tm_run returns and main prints the verdict
TmRunReturn ==
  /\ pc = "drain"
  /\ rq = <<>>
  /\ output' = Append(output, res)
  /\ pc' = "run"
  /\ UNCHANGED <<machine, loader, heap, engine, nRuns, line, ghost, hist>>

\* main reads EOF and calls tm_destroy
Exit ==
  /\ pc = "run"
  /\ states' = <<>>
  /\ trs' = <<>>
  /\ pc' = "exit"
  /\ UNCHANGED <<max_state, max_steps, loader, heap, engine, io, ghost, hist>>

Init ==
  /\ pc = "tr"
  /\ max_state = 0
  /\ max_steps = 0
  /\ states = <<>>
  /\ trs = <<>>
  /\ state_list = <<>>
  /\ c_state = NULL
  /\ nAcc = 0
  /\ rq = <<>>
  /\ branches = <<>>
  /\ pages = <<>>
  /\ mems = <<>>
  /\ has_preempted = FALSE
  /\ res = "-"
  /\ output = <<>>
  /\ nRuns = 0
  /\ line = <<>>
  /\ ghost = <<>>
  /\ hist = [lines |-> <<>>, acc |-> NoLine, probe |-> <<>>, acc_halt |-> FALSE, preempted |-> FALSE, same_write |-> FALSE]

Next ==
  \/ \E l \in TrLines : AddTransition(l)
  \/ LoadTransitionsEnd
  \/ \E q \in AccLines : LoadAcc(q)
  \/ \E n \in 0..MaxStepsBound : LoadMax(n)
  \/ \E w \in InputLines : TmRunStart(w)
  \/ Preempt
  \/ StepFault
  \/ StepAccept
  \/ StepHalt
  \/ StepContinue
  \/ ComputeReturn
  \/ Drain
  \/ TmRunReturn
  \/ Exit

Spec == Init /\ [][Next]_vars

(***************************************************************************)
(* The program under its scheduling: the loop of tm_compute_rq is the only *)
(* thread of the program and reads no input, so an iteration that can run  *)
(* does run.                                                               *)
(***************************************************************************)
Loop ==
  \/ Preempt
  \/ StepFault
  \/ StepAccept
  \/ StepHalt
  \/ StepContinue
  \/ ComputeReturn

SpecFair == Spec /\ WF_vars(Loop)

(***************************************************************************)
(* The lookup alone: a "tr" section that gives state 0 one transition for  *)
(* each char of a set, the transfer to the states array, and the lookup of *)
(* tm_step in state 0 for a char read from the tape.                       *)
(***************************************************************************)
\* the elements of a set of numbers, in increasing order
RECURSIVE Ascending(_)
Ascending(S) ==
  IF S = {} THEN <<>>
  ELSE <<CHOOSE x \in S : \A y \in S : x <= y>>
       \o Ascending(S \ {CHOOSE x \in S : \A y \in S : x <= y})

\* the lines "0 c c S 0" for the chars of a sequence
LinesFor(cs) == [i \in 1..Len(cs) |-> TrLine(0, cs[i], cs[i], "S", 0)]

\* load_transitions: the nodes, the temporary list and its current element
\* after the first n lines of ls
RECURSIVE ReadLines(_, _)
ReadLines(ls, n) ==
  IF n = 0 THEN [trs |-> <<>>, list |-> <<>>, c |-> NULL]
  ELSE LET m == ReadLines(ls, n - 1)
           g == state_temp_get(m.list, m.c, ls[n].q_in)
       IN [trs |-> Append(m.trs, NewTr(g.list[g.c], ls[n])),
           list |-> [g.list EXCEPT
                       ![g.c] = state_temp_add_transition(@, Len(m.trs) + 1,
                                                          ToChar(ls[n].input))],
           c |-> g.c]

\* the program after it has read the lines ls
AfterLines(ls) ==
  /\ pc = "tr"
  /\ max_state = 0
  /\ max_steps = 0
  /\ states = <<>>
  /\ trs = ReadLines(ls, Len(ls)).trs
  /\ state_list = ReadLines(ls, Len(ls)).list
  /\ c_state = ReadLines(ls, Len(ls)).c
  /\ nAcc = 0
  /\ rq = <<>>
  /\ branches = <<>>
  /\ pages = <<>>
  /\ mems = <<>>
  /\ has_preempted = FALSE
  /\ res = "-"
  /\ output = <<>>
  /\ nRuns = 0
  /\ line = <<>>
  /\ ghost = <<>>
  /\ hist = [lines |-> ls, acc |-> NoLine, probe |-> <<>>, acc_halt |-> FALSE,
             preempted |-> FALSE, same_write |-> FALSE]

InitLookup ==
  \E S \in SUBSET LookupSyms :
     /\ Cardinality(S) <= MaxRows
     /\ AfterLines(LinesFor(Ascending(S)))

\* tm_step: the lookup in state 0 for the char of byte key (one lookup is
\* explored in a behaviour)
Search(key) ==
  /\ pc = "acc"
  /\ hist.probe = <<>>
  /\ hist' = [hist EXCEPT !.probe =
       <<ToChar(key),
         search_tr_out(states[INITIAL_STATE].tr_inputs, 0,
                       states[INITIAL_STATE].tr_inputs_count - 1, ToChar(key))>>]
  /\ UNCHANGED <<pc, machine, loader, heap, engine, io, ghost>>

NextLookup ==
  \/ LoadTransitionsEnd
  \/ \E key \in Keys : Search(key)

SpecLookup == InitLookup /\ [][NextLookup]_vars

(***************************************************************************)
(* The loading of the "tr" section alone, with more lines.                 *)
(***************************************************************************)
NextLoad ==
  \/ \E l \in LoadLines : ReadLine(l, MaxLoad)
  \/ LoadTransitionsEnd

SpecLoad == Init /\ [][NextLoad]_vars

(***************************************************************************)
(* Definitions used by the properties.                                     *)
(***************************************************************************)
Verdicts == {SYM_ACCEPT, SYM_REFUSE, SYM_UNDET}

\* the heap of the next state
HeapNext == [br |-> branches', pg |-> pages', mm |-> mems', q |-> rq', fault |-> FALSE]

\* the transition nodes of a list, from its head
RECURSIVE ListOf(_)
ListOf(tr) == IF tr = NULL THEN <<>> ELSE <<tr>> \o ListOf(trs[tr].next)

\* the list that the lookup returns for state q and char c
successors(q, c) ==
  ListOf(search_tr_out(states[q].tr_inputs, 0, states[q].tr_inputs_count - 1, c))

\* the nodes of the lines added for state q and char c, first added first
\* (the node of the i-th line is the i-th node allocated)
RECURSIVE AddedFrom(_, _, _)
AddedFrom(q, c, i) ==
  IF i > Len(hist.lines) THEN <<>>
  ELSE (IF hist.lines[i].q_in = q /\ ToChar(hist.lines[i].input) = c THEN <<i>> ELSE <<>>)
       \o AddedFrom(q, c, i + 1)
Added(q, c) == AddedFrom(q, c, 1)

Reverse(s) == [i \in 1..Len(s) |-> s[Len(s) + 1 - i]]

Chars == {ToChar(i) : i \in 0..UCHAR_MAX}

\* the run of an input line is over, with or without a verdict
RunOver == nRuns > 0 /\ pc \in {"run", "fault"}

(***************************************************************************)
(* C1: a branch that halts in a state of the "acc" section, on a char on   *)
(* which the state has no transition, makes the verdict of the input '1',  *)
(* whatever transitions the state has on other chars.                      *)
(***************************************************************************)
C1_AcceptingHaltAccepts ==
  (pc \in {"drain", "run"} /\ hist.acc_halt) => res = SYM_ACCEPT

(***************************************************************************)
(* C2: when no branch has halted in an accepting state, tm_compute_rq      *)
(* returns with the runqueue empty, 'U' if a branch was preempted during   *)
(* this run and '0' if none was; the flag is false when the run of an      *)
(* input starts, so it is true exactly when a branch of this run was       *)
(* preempted.                                                              *)
(***************************************************************************)
C2_VerdictWithoutAccept ==
  /\ pc = "compute" => has_preempted = hist.preempted
  /\ (pc \in {"drain", "run"} /\ nRuns > 0 /\ ~hist.acc_halt) =>
       /\ rq = <<>>
       /\ res = IF hist.preempted THEN SYM_UNDET ELSE SYM_REFUSE

\* a second input line has returned 'U' after a preemption
C2_Witness ==
  /\ pc = "run"
  /\ nRuns = 2
  /\ hist.preempted
  /\ ~hist.acc_halt
  /\ res = SYM_UNDET

(***************************************************************************)
(* C3: verdict totality: no run ends in a fault, and when main waits for   *)
(* the next input line it has printed exactly one verdict line, one of     *)
(* '0', '1', 'U', for every input line read.                               *)
(***************************************************************************)
C3_VerdictTotality ==
  /\ pc # "fault"
  /\ pc \in {"run", "exit"} =>
       /\ Len(output) = nRuns
       /\ \A i \in 1..Len(output) : output[i] \in Verdicts

(***************************************************************************)
(* C4: the empty input line is legal: its run completes, and with the      *)
(* single transition (0,'_') -> (1,'_',S), state 1 accepting and           *)
(* max_steps = 5 its verdict is '1'.                                       *)
(***************************************************************************)
C4_EmptyInput ==
  (RunOver /\ line = <<>>) =>
    /\ pc # "fault"
    /\ (/\ hist.lines = <<TrLine(0, BLANK, BLANK, "S", 1)>>
        /\ states[1].is_acc
        /\ max_steps = 5) => res = SYM_ACCEPT

StaysQueued == pc = "compute" /\ pc' = "compute" /\ rq # <<>> /\ Len(rq') >= Len(rq)

C6_StepBound ==
  /\ []((pc = "compute" /\ rq # <<>>) =>
          (branches[Top].steps >= 0 /\ branches[Top].steps <= max_steps))
  /\ [][(pc = "compute" /\ rq # <<>> /\ branches[Top].steps = max_steps) =>
          /\ rq' = Tail(rq)
          /\ branches' = [branches EXCEPT ![Top].live = FALSE]
          /\ Len(pages') = Len(pages)
          /\ Len(mems') = Len(mems)
          /\ \A m \in 1..Len(mems) : mems'[m].data = mems[m].data]_vars

\* a branch that has executed transitions has been preempted
C6_Witness ==
  /\ pc = "compute"
  /\ hist.preempted
  /\ max_steps > 0
  /\ \E b \in 1..Len(branches) : ~branches[b].live /\ branches[b].steps = max_steps

(***************************************************************************)
(* C7: copy-on-write isolation.  A step changes the tape of no live branch *)
(* other than the branch it steps, and the tape that a live branch         *)
(* observes is the input line modified by the writes of the transitions of *)
(* its own path.                                                           *)
(***************************************************************************)
\* the page descriptors linked from p
RECURSIVE Chain(_, _)
Chain(h, p) == IF p = NULL THEN <<>> ELSE <<p>> \o Chain(h, h.pg[p].next)

\* the branch whose pages hold the tape of b: b, or its parent until b copies
Src(h, b) == IF h.br[b].nd_parent # NULL THEN h.br[b].nd_parent ELSE b

IndexOf(seq, e) == CHOOSE i \in 1..Len(seq) : seq[i] = e

\* the number of cells of the chain before the cell under the head
HeadCell(h, b) ==
  (IndexOf(Chain(h, h.br[Src(h, b)].first_page), h.br[Src(h, b)].head_page) - 1) * PAGE_SIZE
  + h.br[b].head_pos

\* the contents of the pages of the tape of b, leftmost first
TapeView(h, b) ==
  LET ch == Chain(h, h.br[Src(h, b)].first_page)
  IN [i \in 1..Len(ch) |-> h.mm[h.pg[ch[i]].mem].data]

\* the char that b observes in the cell at distance d from its head
Observed(h, b, d) ==
  LET view == TapeView(h, b)
      c == IF view = <<>> THEN 0 ELSE HeadCell(h, b) + d
  IN IF view = <<>> \/ c < 0 \/ c >= Len(view) * PAGE_SIZE THEN BLANK
     ELSE view[(c \div PAGE_SIZE) + 1][c % PAGE_SIZE]

InQueue(b) == \E i \in 1..Len(rq) : rq[i] = b

C7_Isolation ==
  /\ [](pc \in {"compute", "drain"} =>
          \A b \in 1..Len(branches) : InQueue(b) =>
             \A p \in Window : Observed(Heap, b, p - ghost[b].pos) = ghost[b].tape[p])
  /\ [][(pc \in {"compute", "drain"} /\ pc' # "fault" /\ rq # <<>>) =>
          \A b \in 1..Len(branches) :
             (b # Top /\ branches[b].live /\ branches'[b].live) =>
                TapeView(HeapNext, b) = TapeView(Heap, b)]_vars

\* two branches of the runqueue that have their own pages observe different
\* chars in the same cell
C7_Witness ==
  /\ pc = "compute"
  /\ \E b1, b2 \in 1..Len(branches) :
       /\ InQueue(b1) /\ InQueue(b2)
       /\ branches[b1].first_page # NULL /\ branches[b2].first_page # NULL
       /\ \E p \in Window : ghost[b1].tape[p] # ghost[b2].tape[p]

(***************************************************************************)
(* C8: the verdict of an input depends on the set of transitions only, not *)
(* on the order of their lines: when the run is over the verdict is '1' if *)
(* some computation path reaches an accepting halt within the bound,       *)
(* otherwise 'U' if some path reaches the bound, otherwise '0'.            *)
(***************************************************************************)
\* the lines of the transitions defined for state q on char c
Defined(q, c) ==
  {i \in 1..Len(hist.lines) : hist.lines[i].q_in = q /\ ToChar(hist.lines[i].input) = c}

\* the configuration after the transition of line i
Successor(cfg, i) ==
  LET l == hist.lines[i]
  IN [q |-> l.q_out,
      tape |-> [cfg.tape EXCEPT ![cfg.pos] = ToChar(l.output)],
      pos |-> cfg.pos + (CASE l.move = "L" -> 0 - 1 [] l.move = "R" -> 1 [] OTHER -> 0),
      steps |-> cfg.steps + 1]

\* the events of the computation tree below a configuration
RECURSIVE Events(_)
Events(cfg) ==
  LET D == Defined(cfg.q, cfg.tape[cfg.pos])
  IN IF D = {} THEN (IF states[cfg.q].is_acc THEN {"accept"} ELSE {})
     ELSE IF cfg.steps = max_steps THEN {"bound"}
     ELSE UNION {Events(Successor(cfg, i)) : i \in D}

RootEvents ==
  IF max_steps = 0 THEN {"bound"}
  ELSE Events([q |-> INITIAL_STATE, tape |-> GhostRoot(line).tape, pos |-> 0, steps |-> 0])

TreeVerdict ==
  IF "accept" \in RootEvents THEN SYM_ACCEPT
  ELSE IF "bound" \in RootEvents THEN SYM_UNDET
  ELSE SYM_REFUSE

C8_OrderInsensitive == (pc = "run" /\ nRuns > 0) => res = TreeVerdict

(***************************************************************************)
(* C9: writing the char that is under the head of an allocated page is a   *)
(* no-op: it changes no page content, leaves a shared page shared and      *)
(* allocates nothing.  This holds for every live branch, and for the top   *)
(* branch at the write of its pending transition.                          *)
(***************************************************************************)
C9_SameWriteNoop ==
  pc \in {"compute", "drain"} =>
    /\ \A b \in 1..Len(branches) :
         (branches[b].live /\ branches[b].head_page # NULL) =>
            head_write(Heap, b, head_read(Heap, b)) = Heap
    /\ (pc = "compute" /\ rq # <<>> /\ WritesSame(Top)) =>
         LET h == copy_parent(Heap, Top)
         IN head_write(h, Top, trs[branches[Top].tr].output) = h

\* a branch has executed a transition that wrote the char under the head of
\* a shared page, and its pages are still shared
C9_Witness ==
  /\ pc = "compute"
  /\ hist.same_write
  /\ \E b \in 1..Len(branches) :
       /\ branches[b].steps > 0
       /\ branches[b].first_page # NULL
       /\ LET ch == Chain(Heap, branches[b].first_page)
          IN \E i \in 1..Len(ch) : ~pages[ch[i]].private

(***************************************************************************)
(* C10: '1' is returned only when a branch has halted in an accepting      *)
(* state; a branch that enters an accepting state that has a transition on *)
(* the char under the head stays in the runqueue with that transition      *)
(* pending, and the verdict is not set.                                    *)
(***************************************************************************)
C10_AcceptOnlyOnHalt ==
  /\ [](res = SYM_ACCEPT => hist.acc_halt)
  /\ [][(/\ pc = "compute" /\ rq # <<>> /\ branches[Top].steps # max_steps
         /\ LET h == apply_tr(Heap, Top)
            IN ~h.fault /\ states[h.br[Top].state].is_acc /\ lookup(h, Top) # NULL) =>
          /\ pc' = "compute"
          /\ res' = res
          /\ \E i \in 1..Len(rq') : rq'[i] = Top
          /\ branches'[Top].live
          /\ branches'[Top].tr = lookup(apply_tr(Heap, Top), Top)]_vars

\* a branch has entered an accepting state and continues
C10_Witness ==
  /\ pc = "compute"
  /\ \E b \in 1..Len(branches) :
       /\ InQueue(b)
       /\ branches[b].steps > 0
       /\ branches[b].nd_parent = NULL
       /\ states[branches[b].state].is_acc
       /\ branches[b].tr # NULL

(***************************************************************************)
(* C11: head_move at a page edge.  For every live branch with a page under *)
(* its head: 'L' at offset 0 of the leftmost page allocates one all-BLANK  *)
(* page, links it as the new leftmost page and first_page, and puts the    *)
(* head on its last cell; 'R' at the last offset of the rightmost page     *)
(* allocates one all-BLANK page, links it as the new rightmost page, and   *)
(* puts the head on its first cell; at an edge with a neighbour the head   *)
(* goes to the neighbour and nothing is allocated; inside a page the head  *)
(* moves by one cell; the pages that exist keep their contents.            *)
(***************************************************************************)
\* g has one page more than h: a live private page of BLANK cells, with the
\* links prev and next
OnePageMore(h, g, prev, next) ==
  /\ Len(g.pg) = Len(h.pg) + 1
  /\ Len(g.mm) = Len(h.mm) + 1
  /\ g.pg[Len(g.pg)] = [live |-> TRUE, private |-> TRUE, prev |-> prev, next |-> next,
                        mem |-> Len(g.mm)]
  /\ g.mm[Len(g.mm)].live
  /\ \A i \in 0..(PAGE_SIZE - 1) : g.mm[Len(g.mm)].data[i] = BLANK

\* g keeps what h has: the memory buffers, the page descriptors other than
\* the links of page hp, the other branches, the runqueue
KeepsPages(h, g, b, hp) ==
  /\ \A m \in 1..Len(h.mm) : g.mm[m] = h.mm[m]
  /\ \A p \in 1..Len(h.pg) :
       IF p = hp THEN [g.pg[p] EXCEPT !.prev = NULL, !.next = NULL]
                      = [h.pg[p] EXCEPT !.prev = NULL, !.next = NULL]
       ELSE g.pg[p] = h.pg[p]
  /\ \A c \in 1..Len(h.br) : c # b => g.br[c] = h.br[c]
  /\ Len(g.br) = Len(h.br)
  /\ g.q = h.q
  /\ ~g.fault

\* g is h after the head of b has moved left
MovedLeft(h, g, b, hp) ==
  /\ KeepsPages(h, g, b, hp)
  /\ g.pg[hp].next = h.pg[hp].next
  /\ IF h.br[b].head_pos = 0 /\ h.pg[hp].prev = NULL
     THEN /\ h.br[b].first_page = hp
          /\ OnePageMore(h, g, NULL, hp)
          /\ g.pg[hp].prev = Len(g.pg)
          /\ g.br[b] = [h.br[b] EXCEPT !.first_page = Len(g.pg), !.head_page = Len(g.pg),
                                       !.head_pos = PAGE_SIZE - 1]
     ELSE /\ g.pg = h.pg
          /\ g.mm = h.mm
          /\ g.br[b] = IF h.br[b].head_pos = 0
                       THEN [h.br[b] EXCEPT !.head_page = h.pg[hp].prev,
                                            !.head_pos = PAGE_SIZE - 1]
                       ELSE [h.br[b] EXCEPT !.head_pos = @ - 1]

\* g is h after the head of b has moved right
MovedRight(h, g, b, hp) ==
  /\ KeepsPages(h, g, b, hp)
  /\ g.pg[hp].prev = h.pg[hp].prev
  /\ IF h.br[b].head_pos = PAGE_SIZE - 1 /\ h.pg[hp].next = NULL
     THEN /\ OnePageMore(h, g, hp, NULL)
          /\ g.pg[hp].next = Len(g.pg)
          /\ g.br[b] = [h.br[b] EXCEPT !.head_page = Len(g.pg), !.head_pos = 0]
     ELSE /\ g.pg = h.pg
          /\ g.mm = h.mm
          /\ g.br[b] = IF h.br[b].head_pos = PAGE_SIZE - 1
                       THEN [h.br[b] EXCEPT !.head_page = h.pg[hp].next, !.head_pos = 0]
                       ELSE [h.br[b] EXCEPT !.head_pos = @ + 1]

C11_EdgeExtension ==
  pc \in {"compute", "drain"} =>
    \A b \in 1..Len(branches) :
      (branches[b].live /\ branches[b].head_page # NULL) =>
         /\ MovedLeft(Heap, head_move(Heap, b, "L"), b, branches[b].head_page)
         /\ MovedRight(Heap, head_move(Heap, b, "R"), b, branches[b].head_page)
         /\ head_move(Heap, b, "S") = Heap

\* a branch has moved left from the first cell of the input line: its head is
\* on the last cell of a new leftmost page; the load of the line had extended
\* the page chain to the right
C11_Witness ==
  /\ pc = "compute"
  /\ Len(line) = PAGE_SIZE
  /\ \E b \in 1..Len(branches) :
       /\ InQueue(b)
       /\ ghost[b].pos = 0 - 1
       /\ branches[b].head_page = branches[b].first_page
       /\ branches[b].head_pos = PAGE_SIZE - 1
       /\ pages[branches[b].head_page].prev = NULL
       /\ Len(Chain(Heap, branches[b].first_page)) = 3
       /\ \A i \in 0..(PAGE_SIZE - 1) : mems[pages[branches[b].head_page].mem].data[i] = BLANK

(***************************************************************************)
(* C12: every live branch that has its own tape has its head inside it:    *)
(* head_page is a page of the chain that starts at its first_page, or both *)
(* are NULL; 0 <= head_pos < PAGE_SIZE; and no page descriptor belongs to  *)
(* the chains of two live branches.                                        *)
(***************************************************************************)
\* the page descriptors of the tape of b
OwnPages(b) ==
  {Chain(Heap, branches[b].first_page)[i] :
     i \in 1..Len(Chain(Heap, branches[b].first_page))}

\* b is live and does not wait for the tape of a parent
Materialised(b) == branches[b].live /\ branches[b].nd_parent = NULL

C12_HeadInOwnChain ==
  \A b \in 1..Len(branches) :
    Materialised(b) =>
      /\ branches[b].head_pos >= 0
      /\ branches[b].head_pos < PAGE_SIZE
      /\ IF branches[b].head_page = NULL THEN branches[b].first_page = NULL
         ELSE branches[b].head_page \in OwnPages(b)
      /\ \A p \in OwnPages(b) : pages[p].live
      /\ \A c \in 1..Len(branches) :
           (c # b /\ Materialised(c)) => OwnPages(b) \cap OwnPages(c) = {}

\* a clone that has copied the pages of its parent waits in the runqueue above
\* the parent, its head on the last cell of a page
C12_Witness ==
  /\ pc = "compute"
  /\ \E b, c \in 1..Len(branches) :
       /\ b < c
       /\ InQueue(b) /\ InQueue(c)
       /\ Materialised(b) /\ Materialised(c)
       /\ Cardinality(OwnPages(b)) >= 2
       /\ Cardinality(OwnPages(c)) >= 2
       /\ branches[c].steps > 0
       /\ branches[c].head_pos = PAGE_SIZE - 1

(***************************************************************************)
(* C13: after loading, the list stored for a state and a char holds one    *)
(* node for each transition line added for them, a line added twice twice, *)
(* and each node holds the right part of its line; a state has one row for *)
(* each char it has lines for and no other row; this for every order of    *)
(* the lines.  While loading, the temporary list holds the state numbers   *)
(* in increasing order, each once.                                         *)
(***************************************************************************)
\* the rows of state q for char c
Rows(q, c) == {k \in DOMAIN states[q].tr_inputs : states[q].tr_inputs[k].input = c}

\* the list stored for state q and char c
Stored(q, c) ==
  IF Rows(q, c) = {} THEN <<>>
  ELSE ListOf(states[q].tr_inputs[CHOOSE k \in Rows(q, c) : TRUE].transitions)

SeqSet(seq) == {seq[i] : i \in 1..Len(seq)}

C13_OneSuccessorPerLine ==
  /\ pc = "tr" =>
       \A i, j \in 1..Len(state_list) :
          i < j => state_list[i].number < state_list[j].number
  /\ pc = "acc" =>
       /\ \A i \in 1..Len(trs) :
            /\ trs[i].state = hist.lines[i].q_out
            /\ trs[i].output = ToChar(hist.lines[i].output)
            /\ trs[i].move = hist.lines[i].move
       /\ \A q \in 0..max_state :
            /\ DOMAIN states[q].tr_inputs = 0..(states[q].tr_inputs_count - 1)
            /\ \A c \in Chars :
                 /\ Cardinality(Rows(q, c)) <= 1
                 /\ Rows(q, c) = {} <=> Added(q, c) = <<>>
                 /\ Len(Stored(q, c)) = Len(Added(q, c))
                 /\ SeqSet(Stored(q, c)) = SeqSet(Added(q, c))

\* the lines of two states have been read interleaved, one of them twice
C13_Witness ==
  /\ pc = "acc"
  /\ Len(hist.lines) >= 3
  /\ hist.lines[1] = hist.lines[3]
  /\ hist.lines[2].q_in < hist.lines[1].q_in
  /\ Len(Stored(hist.lines[1].q_in, ToChar(hist.lines[1].input))) = 2

(***************************************************************************)
(* C14: a line of the "acc" section with a state number above max_state is *)
(* ignored: the states array, which is all that a run reads of the "acc"   *)
(* section, does not change; a line with a number q <= max_state sets the  *)
(* flag of state q, an element of the array, and changes nothing else.     *)
(***************************************************************************)
C14_AccOutOfRange ==
  [][(pc = "acc" /\ nAcc' = nAcc + 1) =>
       /\ hist'.acc \in AccLines
       /\ IF hist'.acc > max_state
          THEN states' = states
          ELSE /\ hist'.acc \in DOMAIN states
               /\ states'[hist'.acc].is_acc
               /\ \A q \in DOMAIN states :
                    states'[q] = IF q = hist'.acc THEN [states[q] EXCEPT !.is_acc = TRUE]
                                 ELSE states[q]
       /\ DOMAIN states' = 0..max_state
       /\ UNCHANGED <<max_state, max_steps, trs, rq, branches, output>>]_vars

\* a line with a state number above max_state has been read
C14_Witness ==
  /\ pc = "acc"
  /\ nAcc > 0
  /\ hist.acc > max_state
  /\ \A q \in DOMAIN states : ~states[q].is_acc

(***************************************************************************)
(* C15: the states array covers every state number of the transitions:     *)
(* while the machine is loaded and used, every transition node has         *)
(* 0 <= state <= max_state and every line read has q_in <= max_state; once *)
(* it is allocated the array has the elements 0..max_state; so the state   *)
(* of every branch, and the state that the pending transition of the top   *)
(* branch leads to, are elements of the array.                             *)
(***************************************************************************)
C15_StatesCovered ==
  /\ pc # "exit" =>
       /\ \A i \in 1..Len(trs) : trs[i].state >= 0 /\ trs[i].state <= max_state
       /\ \A i \in 1..Len(hist.lines) : hist.lines[i].q_in <= max_state
  /\ pc \notin {"tr", "exit"} =>
       /\ DOMAIN states = 0..max_state
       /\ \A b \in 1..Len(branches) : branches[b].state \in DOMAIN states
       /\ \A b \in 1..Len(branches) :
            (branches[b].live /\ branches[b].tr # NULL) =>
               /\ branches[b].tr \in 1..Len(trs)
               /\ trs[branches[b].tr].state \in DOMAIN states

\* a branch has entered the highest state, which no line has as its source
C15_Witness ==
  /\ pc = "compute"
  /\ max_state > 0
  /\ \A i \in 1..Len(hist.lines) : hist.lines[i].q_in < max_state
  /\ \E b \in 1..Len(branches) : branches[b].steps > 0 /\ branches[b].state = max_state

(***************************************************************************)
(* C16: fan-out ordering.  While the loop runs, the branches of the        *)
(* runqueue are the live branches, each once, and a clone that has not     *)
(* been stepped is above its parent.  An iteration of the loop changes the *)
(* top branch only: the branches below keep their state, head, steps and   *)
(* pending transition, and their order; the clones it creates are pushed   *)
(* above the top branch, the last pushed on top, and the top of the        *)
(* runqueue is the branch that the next iteration steps.  So a branch that *)
(* fans out applies its pending transition only after its clones and what  *)
(* they push have been popped and destroyed.                               *)
(***************************************************************************)
\* the position of a queued branch in the runqueue, 1 for the top
QueuePos(b) == CHOOSE i \in 1..Len(rq) : rq[i] = b

\* the runqueue after an iteration: the clones, the last created first, above
\* the runqueue rest
PushedAbove(rest) ==
  /\ Len(rq') = Len(rest) + (Len(branches') - Len(branches))
  /\ \A i \in 1..Len(rest) : rq'[Len(rq') - Len(rest) + i] = rest[i]
  /\ \A i \in 1..(Len(rq') - Len(rest)) :
       /\ rq'[i] = Len(branches') - i + 1
       /\ branches'[rq'[i]].nd_parent = Top
       /\ branches'[rq'[i]].live

C16_FanOutOrder ==
  /\ [](pc \in {"compute", "drain"} =>
          /\ \A i, j \in 1..Len(rq) : i # j => rq[i] # rq[j]
          /\ \A b \in 1..Len(branches) : branches[b].live <=> InQueue(b)
          /\ \A b \in 1..Len(branches) :
               (InQueue(b) /\ branches[b].nd_parent # NULL) =>
                  /\ InQueue(branches[b].nd_parent)
                  /\ QueuePos(branches[b].nd_parent) > QueuePos(b)
                  /\ branches[branches[b].nd_parent].nd_parent = NULL)
  /\ [][(pc = "compute" /\ rq # <<>> /\ pc' # "fault") =>
          /\ \A b \in 1..Len(branches) : b # Top => branches'[b] = branches[b]
          /\ IF branches'[Top].live /\ pc' = "compute"
             THEN PushedAbove(rq)
             ELSE IF pc' = "drain" THEN rq' = rq /\ branches'[Top].live
             ELSE rq' = Tail(rq) /\ Len(branches') = Len(branches)]_vars

\* a clone of a clone waits on top of the runqueue: its parent and the root
\* wait below with their pending transitions
C16_Witness ==
  /\ pc = "compute"
  /\ Len(rq) = 3
  /\ branches[rq[1]].nd_parent = rq[2]
  /\ branches[rq[2]].nd_parent = NULL
  /\ branches[rq[2]].steps > 0
  /\ rq[3] < rq[2]
  /\ branches[rq[3]].tr # NULL
  /\ branches[rq[3]].steps = 0

(***************************************************************************)
(* C17: termination.  For every machine, bound and input line, the loop of *)
(* tm_compute_rq stops: it returns, with the runqueue drained or with an   *)
(* accepting halt.                                                         *)
(***************************************************************************)
C17_LoopReturns == (pc = "compute") ~> (pc = "drain")

\* the loop stops, by a return or by the fault of a step
C17_LoopStops == (pc = "compute") ~> (pc \in {"drain", "fault"})

(***************************************************************************)
(* C18: lazy clone fidelity.  A clone that waits in the runqueue for its   *)
(* first step has a live parent in the runqueue, and the parent is as it   *)
(* was at the fan-out: the clone has the state, head offset and steps of   *)
(* the parent, the parent observes the tape that its path had defined at   *)
(* the fan-out, and the pending transitions of parent and clone are two    *)
(* nodes of the list found at the fan-out.  The copy made at the first     *)
(* step gives the clone page descriptors of its own that share the memory  *)
(* of the pages of the parent, with the head on the copy of the head page  *)
(* of the parent: the clone observes the tape of the parent.               *)
(***************************************************************************)
\* b is a clone that has not been stepped
Unstepped(b) == InQueue(b) /\ branches[b].nd_parent # NULL

\* the heap when b has copied the pages of its parent p: b has as many pages,
\* its own, shared, with the memory of the pages of p, and its head on the
\* page that is in the place of the head page of p
CopiedFrom(h, b, p) ==
  /\ h.br[b].nd_parent = NULL
  /\ Len(Chain(h, h.br[b].first_page)) = Len(Chain(h, h.br[p].first_page))
  /\ \A i \in 1..Len(Chain(h, h.br[b].first_page)) :
       /\ Chain(h, h.br[b].first_page)[i] > Len(pages)
       /\ ~h.pg[Chain(h, h.br[b].first_page)[i]].private
       /\ h.pg[Chain(h, h.br[b].first_page)[i]].mem
            = h.pg[Chain(h, h.br[p].first_page)[i]].mem
       /\ (Chain(h, h.br[b].first_page)[i] = h.br[b].head_page)
            <=> (Chain(h, h.br[p].first_page)[i] = h.br[p].head_page)
  /\ (h.br[b].head_page = NULL) <=> (h.br[p].head_page = NULL)
  /\ h.br[p] = branches[p]
  /\ \A m \in 1..Len(mems) : h.mm[m] = mems[m]
  /\ Len(h.mm) = Len(mems)
  /\ \A d \in Window : Observed(h, b, d - ghost[b].pos) = ghost[b].tape[d]

C18_CloneFidelity ==
  pc \in {"compute", "drain"} =>
    \A b \in 1..Len(branches) :
      Unstepped(b) =>
        /\ branches[branches[b].nd_parent].live
        /\ InQueue(branches[b].nd_parent)
        /\ branches[b].state = branches[branches[b].nd_parent].state
        /\ branches[b].head_pos = branches[branches[b].nd_parent].head_pos
        /\ branches[b].steps = branches[branches[b].nd_parent].steps
        /\ ghost[b] = ghost[branches[b].nd_parent]
        /\ \A d \in Window :
             Observed(Heap, branches[b].nd_parent, d - ghost[b].pos) = ghost[b].tape[d]
        /\ branches[b].tr # NULL
        /\ branches[b].tr # branches[branches[b].nd_parent].tr
        /\ \E i, j \in 1..Len(ListOf(lookup(Heap, branches[b].nd_parent))) :
             /\ ListOf(lookup(Heap, branches[b].nd_parent))[i] = branches[b].tr
             /\ ListOf(lookup(Heap, branches[b].nd_parent))[j]
                  = branches[branches[b].nd_parent].tr
        /\ CopiedFrom(copy_parent(Heap, b), b, branches[b].nd_parent)

\* the next iteration is the first step of a clone of a branch that has left
\* the first cell of a tape of two pages
C18_Witness ==
  /\ pc = "compute"
  /\ rq # <<>>
  /\ Unstepped(Top)
  /\ branches[Top].steps > 0
  /\ ghost[Top].pos # 0
  /\ Len(Chain(Heap, branches[branches[Top].nd_parent].first_page)) >= 2

(***************************************************************************)
(* C19: cleanup.  When tm_run returns, whatever the verdict, the runqueue  *)
(* is empty and every branch of the run, its page descriptors and its      *)
(* memory buffers have been freed; while the run lasts, the destruction of *)
(* the top branch frees live objects only, so nothing is freed twice.  The *)
(* run of an input line starts as on a program that has run no line: the   *)
(* heap and the runqueue at the start of the loop are those that tm_run    *)
(* builds for the line from an empty heap, and has_preempted is false.     *)
(***************************************************************************)
EmptyHeap == [br |-> <<>>, pg |-> <<>>, mm |-> <<>>, q |-> <<>>, fault |-> FALSE]

AllFreed(objs) == \A i \in 1..Len(objs) : ~objs[i].live

C19_Cleanup ==
  /\ []((nRuns > 0 /\ (pc = "run" \/ (pc = "drain" /\ rq = <<>>))) =>
          /\ rq = <<>>
          /\ AllFreed(branches)
          /\ AllFreed(pages)
          /\ AllFreed(mems))
  /\ []((pc \in {"compute", "drain"} /\ rq # <<>>) =>
          ~branch_destroy(rq_pop(Heap), Top).fault)
  /\ [][(pc = "run" /\ pc' \in {"compute", "fault"}) =>
          /\ rq = <<>>
          /\ \E h \in {tm_run_start(EmptyHeap, line')} :
               /\ branches' = h.br
               /\ pages' = h.pg
               /\ mems' = h.mm
               /\ rq' = h.q
          /\ has_preempted' = FALSE]_vars

\* the second input line has been accepted by a clone, with its parent in the
\* runqueue and another clone destroyed before
C19_Witness ==
  /\ pc = "run"
  /\ nRuns = 2
  /\ res = SYM_ACCEPT
  /\ Len(branches) = 3
  /\ AllFreed(branches)
  /\ Len(pages) > 3

(***************************************************************************)
(* C20: the lookup.  For every row array that load_transitions builds and  *)
(* every char, search_tr_out returns the list of the row whose input is    *)
(* the char, and NULL when no row has that input.                          *)
(***************************************************************************)
\* the list of the row of state q for char c, NULL when q has no such row
RowList(q, c) ==
  IF Rows(q, c) = {} THEN NULL
  ELSE states[q].tr_inputs[CHOOSE k \in Rows(q, c) : TRUE].transitions

C20_LookupFinds ==
  (pc = "acc" /\ hist.probe # <<>>) =>
     hist.probe[2] = RowList(INITIAL_STATE, hist.probe[1])

\* the lookup finds the row of every char when the chars of the rows are all
\* below 128 or all above 127
C20_LookupFindsUnmixed ==
  (/\ pc = "acc"
   /\ hist.probe # <<>>
   /\ \/ \A i \in 1..Len(hist.lines) : hist.lines[i].input < 128
      \/ \A i \in 1..Len(hist.lines) : hist.lines[i].input > 127) =>
     hist.probe[2] = RowList(INITIAL_STATE, hist.probe[1])

(***************************************************************************)
(* C21: live-branch bound.  While a run lasts the runqueue holds at most   *)
(* 1 + (k - 1) * (d + 1) branches, where k is the length of the longest    *)
(* transition list of the machine and d is the steps of the branch at the  *)
(* top, which is at most max_steps; from the top of the runqueue to the    *)
(* bottom the steps of the branches never increase.  A machine without     *)
(* transitions has k = 0 and its runqueue holds the root: the bound holds  *)
(* with k taken as at least 1.                                             *)
(***************************************************************************)
\* the lengths of the transition lists of the rows of the states array
ListLengths ==
  UNION { { Len(ListOf(states[q].tr_inputs[i].transitions)) :
              i \in DOMAIN states[q].tr_inputs } : q \in DOMAIN states }

\* the length of the longest transition list, 0 for a machine without
\* transitions
LongestList ==
  IF ListLengths = {} THEN 0
  ELSE CHOOSE n \in ListLengths : \A m \in ListLengths : m <= n

\* the bound for lists of at most k transitions when the top branch has
\* executed d transitions
LiveBound(k, d) == 1 + (k - 1) * (d + 1)

\* the bound with k the length of the longest list, also when it is 0
C21_BoundAsStated ==
  (pc \in {"compute", "drain"} /\ rq # <<>>) =>
     /\ Len(rq) <= LiveBound(LongestList, branches[Top].steps)
     /\ branches[Top].steps <= max_steps
     /\ \A i, j \in 1..Len(rq) :
          i < j => branches[rq[i]].steps >= branches[rq[j]].steps

\* the bound with k taken as at least 1
C21_LiveBranchBound ==
  (pc \in {"compute", "drain"} /\ rq # <<>>) =>
     /\ Len(rq) <= LiveBound(Max(LongestList, 1), branches[Top].steps)
     /\ branches[Top].steps <= max_steps
     /\ \A i, j \in 1..Len(rq) :
          i < j => branches[rq[i]].steps >= branches[rq[j]].steps

\* the runqueue is as long as the bound allows, with branches of two
\* different steps: the top branch has executed a transition and has fanned
\* out again
C21_Witness ==
  /\ pc = "compute"
  /\ rq # <<>>
  /\ LongestList >= 2
  /\ branches[Top].steps >= 1
  /\ Len(rq) = LiveBound(LongestList, branches[Top].steps)
  /\ branches[rq[Len(rq)]].steps < branches[Top].steps

(***************************************************************************)
(* C22: page-chain well-formedness.  The page descriptors of every live    *)
(* branch form one doubly linked chain: first_page is its only page with   *)
(* prev = NULL, the other pages are reached from it through next, each     *)
(* once, and a page that is the next of p has p as its prev; the head page *)
(* leads back to first_page through prev.  The chain that branch_memcpy    *)
(* gives to a clone is such a chain, with as many pages as the chain of    *)
(* the parent and with the contents of the pages of the parent in the same *)
(* order, and the copy leaves the chain of the parent as it was.           *)
(***************************************************************************)
\* the page descriptors reached from p through prev, p first
RECURSIVE BackChain(_, _)
BackChain(h, p) == IF p = NULL THEN <<>> ELSE <<p>> \o BackChain(h, h.pg[p].prev)

\* ch is a doubly linked chain of live pages that ends with next = NULL
DoublyLinked(h, ch) ==
  /\ \A i \in 1..Len(ch) :
       /\ h.pg[ch[i]].live
       /\ h.pg[ch[i]].prev = (IF i = 1 THEN NULL ELSE ch[i - 1])
       /\ h.pg[ch[i]].next = (IF i = Len(ch) THEN NULL ELSE ch[i + 1])
       /\ h.pg[ch[i]].next # NULL => h.pg[h.pg[ch[i]].next].prev = ch[i]
  /\ \A i, j \in 1..Len(ch) : i # j => ch[i] # ch[j]
  /\ Cardinality({i \in 1..Len(ch) : h.pg[ch[i]].prev = NULL}) = (IF ch = <<>> THEN 0 ELSE 1)

\* the pages of b in the heap h are one chain, from first_page
WellFormed(h, b) ==
  /\ DoublyLinked(h, Chain(h, h.br[b].first_page))
  /\ h.br[b].head_page # NULL =>
       /\ BackChain(h, h.br[b].head_page) # <<>>
       /\ BackChain(h, h.br[b].head_page)[Len(BackChain(h, h.br[b].head_page))]
            = h.br[b].first_page

\* the contents of the pages of a chain, leftmost first
Contents(h, ch) == [i \in 1..Len(ch) |-> h.mm[h.pg[ch[i]].mem].data]

\* in the heap h, where b has copied the pages of p, the chain of b is a
\* chain of new descriptors with the contents of the chain of p, which is as
\* it was
SameChain(h, b, p) ==
  /\ WellFormed(h, b)
  /\ WellFormed(h, p)
  /\ Len(Chain(h, h.br[b].first_page)) = Len(Chain(Heap, branches[p].first_page))
  /\ Contents(h, Chain(h, h.br[b].first_page))
       = Contents(Heap, Chain(Heap, branches[p].first_page))
  /\ Chain(h, h.br[p].first_page) = Chain(Heap, branches[p].first_page)
  /\ \A i \in 1..Len(Chain(h, h.br[b].first_page)) :
       Chain(h, h.br[b].first_page)[i] > Len(pages)

C22_ChainWellFormed ==
  pc \in {"compute", "drain"} =>
    \A b \in 1..Len(branches) :
      branches[b].live =>
        /\ WellFormed(Heap, b)
        /\ Unstepped(b) =>
             SameChain(branch_memcpy(Heap, b, branches[b].nd_parent), b,
                       branches[b].nd_parent)

\* the next iteration is the first step of a clone of a branch that was a
\* clone: the parent has a chain of two pages, the first with a memory of its
\* own and the second with the memory of a page of its own parent
C22_Witness ==
  /\ pc = "compute"
  /\ rq # <<>>
  /\ Unstepped(Top)
  /\ branches[branches[Top].nd_parent].steps >= 1
  /\ Len(Chain(Heap, branches[branches[Top].nd_parent].first_page)) = 2
  /\ pages[Chain(Heap, branches[branches[Top].nd_parent].first_page)[1]].private
  /\ ~pages[Chain(Heap, branches[branches[Top].nd_parent].first_page)[2]].private

(***************************************************************************)
(* C23: page-memory ownership.  While a run lasts every live memory buffer *)
(* is the memory of exactly one live page descriptor marked private, its   *)
(* owner; the other live descriptors with that memory are not private and  *)
(* are pages of branches that are above the branch of the owner in the     *)
(* runqueue.  Every live descriptor is a page of a live branch and its     *)
(* memory is live, and a clone that waits for its first step has a live    *)
(* parent: no branch reads or copies a freed buffer.  An iteration frees a *)
(* buffer only in the destruction of the branch of its owner, the top of   *)
(* the runqueue, and no destruction frees a freed object: the process      *)
(* stops on a fault only where tm_run or tm_step dereference NULL.  All of *)
(* this holds in the loop of tm_compute_rq and in the drain that follows.  *)
(***************************************************************************)
\* the live page descriptors whose memory is m
Refs(m) == {p \in 1..Len(pages) : pages[p].live /\ pages[p].mem = m}

\* the descriptors among them that are marked private
Owners(m) == {p \in Refs(m) : pages[p].private}

\* the live branches whose chain holds the page descriptor p
BranchesOf(p) == {b \in 1..Len(branches) : branches[b].live /\ p \in OwnPages(b)}

\* the page p is a page of one queued branch, which is above the branch of
\* the page o in the runqueue
SharesAbove(p, o) ==
  \E b \in BranchesOf(p) :
    /\ BranchesOf(p) = {b}
    /\ InQueue(b)
    /\ \A c \in BranchesOf(o) : InQueue(c) /\ QueuePos(b) < QueuePos(c)

Ownership ==
  /\ \A m \in 1..Len(mems) :
       IF mems[m].live
       THEN /\ Cardinality(Owners(m)) = 1
            /\ \A o \in Owners(m) :
                 /\ Cardinality(BranchesOf(o)) = 1
                 /\ \A p \in Refs(m) \ {o} : ~pages[p].private /\ SharesAbove(p, o)
       ELSE Refs(m) = {}
  /\ \A p \in 1..Len(pages) :
       pages[p].live =>
         /\ Cardinality(BranchesOf(p)) = 1
         /\ pages[p].mem \in 1..Len(mems)
         /\ mems[pages[p].mem].live
  /\ \A b \in 1..Len(branches) :
       Unstepped(b) =>
         /\ branches[branches[b].nd_parent].live
         /\ InQueue(branches[b].nd_parent)
         /\ QueuePos(b) < QueuePos(branches[b].nd_parent)

\* an iteration that frees the buffer m destroys the top branch, which has
\* the owner of m among its pages
FreedByOwner(m) ==
  /\ rq # <<>>
  /\ rq' = Tail(rq)
  /\ ~branches'[Top].live
  /\ \E o \in Owners(m) : o \in OwnPages(Top)

C23_Ownership ==
  /\ [](pc \in {"compute", "drain"} => Ownership)
  /\ [][(pc \in {"compute", "drain"}) =>
          (\A m \in 1..Len(mems) :
              (mems[m].live /\ ~mems'[m].live) => FreedByOwner(m))]_vars
  /\ [][(pc \in {"compute", "drain"} /\ pc' = "fault") =>
          (pc = "compute" /\ rq # <<>> /\ ~Preemption /\ tm_step(Heap, Top).h.fault)]_vars

\* the drain after an acceptance: the runqueue holds the accepting branch and
\* others, a buffer is the memory of pages of two branches, and another
\* buffer has been freed
C23_Witness ==
  /\ pc = "drain"
  /\ res = SYM_ACCEPT
  /\ Len(rq) >= 2
  /\ \E m \in 1..Len(mems) : mems[m].live /\ Cardinality(Refs(m)) >= 2
  /\ \E m \in 1..Len(mems) : ~mems[m].live
====
